---- MODULE Spec2Model ----
(***************************************************************************)
(* Model of src/netlist.py: the SPICE netlist reader (Netlist.read), the   *)
(* writer (Netlist.write) and the query/mutation interface of Device and   *)
(* Cell.                                                                   *)
(*                                                                         *)
(* A Python str is a sequence of one-character strings, so that the        *)
(* str methods the code uses (startswith, find, split, strip, join) are    *)
(* computed, character by character, as Python computes them.              *)
(***************************************************************************)
EXTENDS Integers, Sequences, FiniteSets, TLC

(***************************************************************************)
(* Python str methods.                                                     *)
(***************************************************************************)

\* The characters str.split() and str.strip() treat as whitespace.
Whitespace == {" ", "\n", "\t"}

\* s.startswith(p)
StartsWith(s, p) == Len(s) >= Len(p) /\ SubSeq(s, 1, Len(p)) = p

\* The 1-based positions at which sub occurs in s.
Occurrences(s, sub) ==
    {i \in 1..(Len(s) - Len(sub) + 1) : SubSeq(s, i, i + Len(sub) - 1) = sub}

\* s.find(sub): the 0-based index of the first occurrence, -1 when there is none.
Find(s, sub) ==
    IF Occurrences(s, sub) = {} THEN -1
    ELSE (CHOOSE i \in Occurrences(s, sub) :
              \A j \in Occurrences(s, sub) : i <= j) - 1

\* s.split(c, maxsplit=1)[-1]: the text after the first c, or all of s.
SplitOnceLast(s, c) ==
    IF Find(s, <<c>>) = -1 THEN s
    ELSE SubSeq(s, Find(s, <<c>>) + 2, Len(s))

RECURSIVE LStrip(_)
LStrip(s) ==
    IF s # <<>> /\ s[1] \in Whitespace THEN LStrip(Tail(s)) ELSE s

RECURSIVE RStrip(_)
RStrip(s) ==
    IF s # <<>> /\ s[Len(s)] \in Whitespace
    THEN RStrip(SubSeq(s, 1, Len(s) - 1)) ELSE s

\* s.strip()
Strip(s) == RStrip(LStrip(s))

\* Length of the leading run of characters of s that are not in stop.
RunLen(s, stop) ==
    IF \E i \in 1..Len(s) : s[i] \in stop
    THEN (CHOOSE i \in 1..Len(s) :
              s[i] \in stop /\ \A j \in 1..(i - 1) : s[j] \notin stop) - 1
    ELSE Len(s)

\* s.split(): the maximal runs of non-whitespace characters.
RECURSIVE SplitWs(_)
SplitWs(s) ==
    LET t == LStrip(s) IN
    IF t = <<>> THEN <<>>
    ELSE <<SubSeq(t, 1, RunLen(t, Whitespace))>>
             \o SplitWs(SubSeq(t, RunLen(t, Whitespace) + 1, Len(t)))

\* s.split(c): the pieces between the occurrences of c (empty pieces kept).
RECURSIVE SplitOn(_, _)
SplitOn(s, c) ==
    IF RunLen(s, {c}) = Len(s) THEN <<s>>
    ELSE <<SubSeq(s, 1, RunLen(s, {c}))>>
             \o SplitOn(SubSeq(s, RunLen(s, {c}) + 2, Len(s)), c)

\* sep.join(parts)
RECURSIVE Join(_, _)
Join(parts, sep) ==
    IF parts = <<>> THEN <<>>
    ELSE IF Len(parts) = 1 THEN parts[1]
    ELSE parts[1] \o sep \o Join(Tail(parts), sep)

\* file.readlines(): the text cut after every newline, the newline kept.
RECURSIVE ReadLines(_)
ReadLines(text) ==
    IF text = <<>> THEN <<>>
    ELSE IF RunLen(text, {"\n"}) = Len(text) THEN <<text>>
    ELSE <<SubSeq(text, 1, RunLen(text, {"\n"}) + 1)>>
             \o ReadLines(SubSeq(text, RunLen(text, {"\n"}) + 2, Len(text)))

\* file.writelines(lines): the lines one after the other.
RECURSIVE Concat(_)
Concat(lines) ==
    IF lines = <<>> THEN <<>> ELSE lines[1] \o Concat(Tail(lines))

(***************************************************************************)
(* Text literals of the source.                                            *)
(***************************************************************************)

W_name        == <<"n", "a", "m", "e">>
W_PLUS        == <<"P", "L", "U", "S">>
W_MINUS       == <<"M", "I", "N", "U", "S">>
W_Model       == <<"M", "o", "d", "e", "l">>
W_S           == <<"S">>
W_D           == <<"D">>
W_G           == <<"G">>
W_B           == <<"B">>
W_self        == <<"s", "e", "l", "f">>
W_plus        == <<"p", "l", "u", "s">>
W_minus       == <<"m", "i", "n", "u", "s">>
W_model       == <<"m", "o", "d", "e", "l">>
W_source      == <<"s", "o", "u", "r", "c", "e">>
W_drain       == <<"d", "r", "a", "i", "n">>
W_gate        == <<"g", "a", "t", "e">>
W_base        == <<"b", "a", "s", "e">>
W_Diode       == <<"D", "i", "o", "d", "e">>
W_Transistor  == <<"T", "r", "a", "n", "s", "i", "s", "t", "o", "r">>
W_Description == <<"D", "e", "s", "c", "r", "i", "p", "t", "i", "o", "n">>
W_Equation    == <<"E", "q", "u", "a", "t", "i", "o", "n">>
W_subckt      == <<".", "s", "u", "b", "c", "k", "t">>
W_ends        == <<".", "e", "n", "d", "s">>
W_star        == <<"*">>
W_M           == <<"M">>
W_NL          == <<"\n">>
W_SP          == <<" ">>

(***************************************************************************)
(* Device, Diode, Transistor.  A device is its class and its __dict__: the *)
(* attributes as key/value pairs in insertion order.                       *)
(***************************************************************************)

\* Device.positional_attributes
positional_attributes ==
    {W_name, W_PLUS, W_MINUS, W_Model, W_S, W_D, W_G, W_B}

\* type(self).__name__
ClassName(cls) == IF cls = "Transistor" THEN W_Transistor ELSE W_Diode

Keys(dict) == {dict[i].k : i \in 1..Len(dict)}

KeyIndex(dict, key) == CHOOSE i \in 1..Len(dict) : dict[i].k = key

\* getattr(self, key), for a key of the dict
GetAttr(dict, key) == dict[KeyIndex(dict, key)].v

\* self.__setattr__(key, value) / d[key] = value: an existing key keeps its
\* place and takes the value, a new key is appended.
SetItem(dict, key, value) ==
    IF key \in Keys(dict)
    THEN [dict EXCEPT ![KeyIndex(dict, key)].v = value]
    ELSE Append(dict, [k |-> key, v |-> value])

\* for k, v in kwargs.items(): self.__setattr__(k, v)
RECURSIVE SetAll(_, _)
SetAll(dict, kwargs) ==
    IF kwargs = <<>> THEN dict
    ELSE SetAll(SetItem(dict, kwargs[1].k, kwargs[1].v), Tail(kwargs))

\* Diode.__init__
DiodeInit(pos, kwargs) ==
    [cls  |-> "Diode",
     dict |-> SetAll(<<[k |-> W_name,  v |-> pos[1]],
                       [k |-> W_PLUS,  v |-> pos[2]],
                       [k |-> W_MINUS, v |-> pos[3]],
                       [k |-> W_Model, v |-> pos[4]]>>, kwargs)]

\* Transistor.__init__
TransistorInit(pos, kwargs) ==
    [cls  |-> "Transistor",
     dict |-> SetAll(<<[k |-> W_name,  v |-> pos[1]],
                       [k |-> W_S,     v |-> pos[2]],
                       [k |-> W_D,     v |-> pos[3]],
                       [k |-> W_G,     v |-> pos[4]],
                       [k |-> W_B,     v |-> pos[5]],
                       [k |-> W_Model, v |-> pos[6]]>>, kwargs)]

\* The parameter names of the two constructors: a keyword argument with one
\* of these names collides with the positional argument bound to it.
DiodeParams      == {W_self, W_name, W_plus, W_minus, W_model}
TransistorParams == {W_self, W_name, W_source, W_drain, W_gate, W_base, W_model}

\* A placeholder for the device of a call that raised.
NoDevice == [cls |-> "None", dict |-> <<>>]

\* for elem in params[n:]: k, v = elem.split('='); kw_params[k] = v
\* The unpacking raises ValueError unless the split gives two pieces.
KwShapeOk(elems) == \A i \in 1..Len(elems) : Len(SplitOn(elems[i], "=")) = 2

RECURSIVE KwParams(_, _)
KwParams(kw, elems) ==
    IF elems = <<>> THEN kw
    ELSE KwParams(SetItem(kw, SplitOn(elems[1], "=")[1],
                              SplitOn(elems[1], "=")[2]), Tail(elems))

\* Netlist.read_transistor: [err |-> "none"] with the device, or the
\* exception the call raises.
read_transistor(line) ==
    LET params == SplitWs(line)
        rest   == SubSeq(params, 7, Len(params))
    IN  IF ~KwShapeOk(rest)
        THEN [err |-> "ValueError", dev |-> NoDevice]
        ELSE IF Len(params) < 6
                 \/ Keys(KwParams(<<>>, rest)) \cap TransistorParams # {}
        THEN [err |-> "TypeError", dev |-> NoDevice]
        ELSE [err |-> "none",
              dev |-> TransistorInit(SubSeq(params, 1, 6), KwParams(<<>>, rest))]

\* Netlist.read_diode
read_diode(line) ==
    LET params == SplitWs(line)
        rest   == SubSeq(params, 5, Len(params))
    IN  IF ~KwShapeOk(rest)
        THEN [err |-> "ValueError", dev |-> NoDevice]
        ELSE IF Len(params) < 4
                 \/ Keys(KwParams(<<>>, rest)) \cap DiodeParams # {}
        THEN [err |-> "TypeError", dev |-> NoDevice]
        ELSE [err |-> "none",
              dev |-> DiodeInit(SubSeq(params, 1, 4), KwParams(<<>>, rest))]

\* Device.__repr__ / __str__
Repr(dev) ==
    LET info == [i \in 1..Len(dev.dict) |->
                    IF dev.dict[i].k \in positional_attributes
                    THEN dev.dict[i].v
                    ELSE dev.dict[i].k \o <<"=">> \o dev.dict[i].v]
    IN  ClassName(dev.cls) \o <<":", " ">> \o Join(info, W_SP)

\* A Python argument: a str (its text) or a value of another type.
Str(text) == [type |-> "str", text |-> text]
NotStr    == [type |-> "int", text |-> <<>>]

\* set_attribute without the check of the key: a new key is added.
set_attribute_unchecked(dev, attribute_name, attribute_value) ==
    IF attribute_name.type # "str" \/ attribute_value.type # "str"
    THEN [err |-> "TypeError", dev |-> dev]
    ELSE [err |-> "none",
          dev |-> [dev EXCEPT !.dict =
                      SetItem(dev.dict, attribute_name.text, attribute_value.text)]]

\* Device.set_attribute: the device afterwards and the exception raised.
set_attribute(dev, attribute_name, attribute_value) ==
    IF attribute_name.type # "str" \/ attribute_value.type # "str"
    THEN [err |-> "TypeError", dev |-> dev]
    ELSE IF attribute_name.text \notin Keys(dev.dict)
    THEN [err |-> "AttributeError", dev |-> dev]
    ELSE [err |-> "none",
          dev |-> [dev EXCEPT !.dict =
                      SetItem(dev.dict, attribute_name.text, attribute_value.text)]]

(***************************************************************************)
(* Cell.                                                                   *)
(***************************************************************************)

\* The value of a local variable that has not been assigned yet.
Unbound     == <<"<unbound>">>
UnboundList == <<Unbound>>

\* An exception: its kind and what its message quotes.
Exc(kind, flags, text, pins) ==
    [kind |-> kind, flags |-> flags, text |-> text, pins |-> pins]
NoExc == Exc("none", <<>>, <<>>, {})

\* No copy: the list object given, which the caller goes on changing.
no_copy(instances) == [items |-> instances, shared |-> TRUE]

\* copy.deepcopy(instances): a new list of new devices, equal to the one
\* given and sharing no object with it.
deepcopy(instances) == [items |-> instances, shared |-> FALSE]

\* Cell.__init__: self.instances is the deep copy; shared tells whether the
\* list object of the cell is the one that was given.
Cell(name, description, equation, pin_order, instances) ==
    LET own == deepcopy(instances) IN
    [name |-> name, description |-> description, equation |-> equation,
     pin_order |-> pin_order, instances |-> own.items, shared |-> own.shared]

\* Cell.get_pin_order
get_pin_order(cell) == Join(cell.pin_order, W_SP)

\* The attribute names set_pin_order collects pins from:
\* Device.positional_attributes.difference({'name', 'Model'})
PinAttributes == positional_attributes \ {W_name, W_Model}

\* valid_pins of Cell.set_pin_order: for every instance, the value of every
\* key of its __dict__ that is one of PinAttributes.
valid_pins(instances) ==
    {GetAttr(instances[i].dict, pin) :
        <<i, pin>> \in {<<j, key>> \in (1..Len(instances)) \X PinAttributes :
                           key \in Keys(instances[j].dict)}}

Range(seq) == {seq[i] : i \in 1..Len(seq)}

\* Cell.set_pin_order: the cell afterwards and the exception raised.
set_pin_order(cell, new_pin_order) ==
    IF new_pin_order.type # "str"
    THEN [err |-> Exc("TypeError", <<>>, <<>>, {}), cell |-> cell]
    ELSE LET pins == SplitWs(new_pin_order.text) IN
         IF Range(pins) \subseteq valid_pins(cell.instances)
         THEN [err |-> NoExc, cell |-> [cell EXCEPT !.pin_order = pins]]
         ELSE [err |-> Exc("PinsNotExist", <<>>, <<>>,
                           Range(pins) \ valid_pins(cell.instances)),
               cell |-> cell]

\* The scan returning the last entry equal to name instead of the first.
LastMatch(names, name) ==
    IF \E i \in 1..Len(names) : names[i] = name
    THEN CHOOSE i \in 1..Len(names) :
             names[i] = name /\ \A j \in (i + 1)..Len(names) : names[j] # name
    ELSE 0

\* The index of the first entry of names equal to name, 0 when none is:
\* for _x in xs: if _x.name == name: return _x
FirstMatch(names, name) ==
    IF \E i \in 1..Len(names) : names[i] = name
    THEN CHOOSE i \in 1..Len(names) :
             names[i] = name /\ \A j \in 1..(i - 1) : names[j] # name
    ELSE 0

\* A lookup by name in a list of names: the index of the entry returned, or
\* the exception raised and the names its message lists.
Lookup(names, name) ==
    IF name.type # "str"
    THEN [err |-> Exc("TypeError", <<>>, <<>>, {}), index |-> 0, names |-> <<>>]
    ELSE IF FirstMatch(names, name.text) # 0
    THEN [err |-> NoExc, index |-> FirstMatch(names, name.text), names |-> <<>>]
    ELSE [err |-> Exc("NameError", <<>>, name.text, {}), index |-> 0,
          names |-> names]

\* [getattr(_, "name") for _ in self.instances]
InstanceNames(cell) ==
    [i \in 1..Len(cell.instances) |-> GetAttr(cell.instances[i].dict, W_name)]

\* Cell.get_instance
get_instance(cell, instance_name) == Lookup(InstanceNames(cell), instance_name)

\* [getattr(_, "name") for _ in self.cell_list]
CellNames(cells) == [i \in 1..Len(cells) |-> cells[i].name]

\* Netlist.get_cell
get_cell(cells, cell_name) == Lookup(CellNames(cells), cell_name)

(***************************************************************************)
(* Netlist.read: the locals of the call and self.cell_list as one frame,   *)
(* and the body of the line loop as a function of the frame and the line.  *)
(***************************************************************************)

FlagNames == <<"description", "equation", "subckt", "instances">>

\* dict.fromkeys([...], False)
NoFlags == [f \in Range(FlagNames) |-> FALSE]

\* [k for k, v in valid_spice_netlist.items() if v == False]
FalseFlags(flags) ==
    LET IsFalse(f) == ~flags[f] IN SelectSeq(FlagNames, IsFalse)

\* The frame at the top of read(), before the loop.
NewFrame(cells) ==
    [instances |-> <<>>, valid_spice_netlist |-> NoFlags, finished |-> "unbound",
     description |-> Unbound, equation |-> Unbound, cell_name |-> Unbound,
     pin_order |-> UnboundList, cell_list |-> cells, exc |-> NoExc]

\* A raise that also rolls back the cells appended so far.
Raise_rollback(fr, e) == [fr EXCEPT !.exc = e, !.cell_list = <<>>]

\* raise: the exception leaves the loop and read(); self.cell_list stays
Raise(fr, e) == [fr EXCEPT !.exc = e]

\* A change of the list object `instances` of read(): every cell holding
\* that object sees it.
SetAccumulator(fr, new) ==
    [fr EXCEPT !.instances = new,
               !.cell_list = [c \in 1..Len(fr.cell_list) |->
                                 IF fr.cell_list[c].shared
                                 THEN [fr.cell_list[c] EXCEPT !.instances = new]
                                 ELSE fr.cell_list[c]]]

\* A change of the d-th device of the c-th cell: a change of the list object
\* of that cell.
SetDevice(fr, c, d, dev) ==
    LET new == [fr.cell_list[c].instances EXCEPT ![d] = dev] IN
    IF fr.cell_list[c].shared
    THEN SetAccumulator(fr, new)
    ELSE [fr EXCEPT !.cell_list[c].instances = new]

\* line.startswith('*')
CommentLine(fr, line) ==
    IF fr.valid_spice_netlist["subckt"] \/ fr.valid_spice_netlist["instances"]
    THEN IF fr.cell_name = Unbound
         THEN Raise(fr, Exc("UnboundLocalError", <<>>, <<>>, {}))
         ELSE Raise(fr, Exc("NoEndsInCell", <<>>, fr.cell_name, {}))
    ELSE IF Find(line, W_Description) # -1
    THEN [fr EXCEPT !.valid_spice_netlist["description"] = TRUE,
                    !.description = Strip(SplitOnceLast(line, ":"))]
    ELSE IF Find(line, W_Equation) # -1
    THEN [fr EXCEPT !.valid_spice_netlist["equation"] = TRUE,
                    !.equation = Strip(SplitOnceLast(line, ":"))]
    ELSE fr

\* line.startswith('.subckt')
SubcktLine(fr, line) ==
    LET cell_info == SplitWs(line)
        marked    == [fr EXCEPT !.valid_spice_netlist["subckt"] = TRUE]
    IN  IF Len(cell_info) < 2
        THEN Raise(marked, Exc("IndexError", <<>>, <<>>, {}))
        ELSE [marked EXCEPT !.cell_name = cell_info[2],
                            !.pin_order = SubSeq(cell_info, 3, Len(cell_info))]

\* The device branch without the setting of the instances flag.
DeviceLine_unmarked(fr, parsed) ==
    IF parsed.err # "none"
    THEN Raise(fr, Exc(parsed.err, <<>>, <<>>, {}))
    ELSE SetAccumulator(fr, Append(fr.instances, parsed.dev))

\* line.startswith('M') / line.startswith('D'), parsed being the result of
\* read_transistor / read_diode
DeviceLine(fr, parsed) ==
    LET marked == [fr EXCEPT !.valid_spice_netlist["instances"] = TRUE]
    IN  IF parsed.err # "none"
        THEN Raise(marked, Exc(parsed.err, <<>>, <<>>, {}))
        ELSE SetAccumulator(marked, Append(marked.instances, parsed.dev))

\* The .ends branch without the reset of the flags.
EndsLine_no_reset(fr) ==
    LET closing == [fr EXCEPT !.finished = "True"]
    IN  IF \E f \in Range(FlagNames) : ~fr.valid_spice_netlist[f]
        THEN Raise(closing,
                   Exc("CheckFlags", FalseFlags(fr.valid_spice_netlist), <<>>, {}))
        ELSE SetAccumulator(
                 [closing EXCEPT
                     !.cell_list = Append(@, Cell(fr.cell_name, fr.description,
                                                  fr.equation, fr.pin_order,
                                                  fr.instances))],
                 <<>>)

\* The .ends branch without instances.clear().
EndsLine_no_clear(fr) ==
    LET closing == [fr EXCEPT !.finished = "True"]
    IN  IF \E f \in Range(FlagNames) : ~fr.valid_spice_netlist[f]
        THEN Raise(closing,
                   Exc("CheckFlags", FalseFlags(fr.valid_spice_netlist), <<>>, {}))
        ELSE [closing EXCEPT
                 !.cell_list = Append(@, Cell(fr.cell_name, fr.description,
                                              fr.equation, fr.pin_order,
                                              fr.instances)),
                 !.valid_spice_netlist = NoFlags]

\* line.startswith('.ends')
EndsLine(fr) ==
    LET closing == [fr EXCEPT !.finished = "True"]
    IN  IF \E f \in Range(FlagNames) : ~fr.valid_spice_netlist[f]
        THEN Raise(closing,
                   Exc("CheckFlags", FalseFlags(fr.valid_spice_netlist), <<>>, {}))
        ELSE SetAccumulator(
                 [closing EXCEPT
                     !.cell_list = Append(@, Cell(fr.cell_name, fr.description,
                                                  fr.equation, fr.pin_order,
                                                  fr.instances)),
                     !.valid_spice_netlist = NoFlags],
                 <<>>)

\* The last branch: any other line
OtherLine(fr, line) ==
    IF line # W_NL
    THEN Raise(fr, Exc("CheckLine", <<>>, Strip(line), {}))
    ELSE fr

\* One pass of the body of `for line in lines`
ProcessLine(frame, line) ==
    LET fr == [frame EXCEPT !.finished = "False"] IN
    IF StartsWith(line, W_star) THEN CommentLine(fr, line)
    ELSE IF StartsWith(line, W_subckt) THEN SubcktLine(fr, line)
    ELSE IF StartsWith(line, W_M) THEN DeviceLine(fr, read_transistor(line))
    ELSE IF StartsWith(line, W_D) THEN DeviceLine(fr, read_diode(line))
    ELSE IF StartsWith(line, W_ends) THEN EndsLine(fr)
    ELSE OtherLine(fr, line)

\* The else clause without the check of finished.
EndOfLoop_unchecked(fr) ==
    IF fr.finished = "unbound"
    THEN Raise(fr, Exc("UnboundLocalError", <<>>, <<>>, {}))
    ELSE fr

\* The else clause of the loop, run once the lines are exhausted
EndOfLoop(fr) ==
    IF fr.finished = "unbound"
    THEN Raise(fr, Exc("UnboundLocalError", <<>>, <<>>, {}))
    ELSE IF fr.finished = "False"
    THEN Raise(fr, Exc("NoEndsAtEOF", <<>>, <<>>, {}))
    ELSE fr

\* The loop over the lines, left at the first exception
RECURSIVE Loop(_, _)
Loop(fr, lines) ==
    IF fr.exc # NoExc THEN fr
    ELSE IF lines = <<>> THEN EndOfLoop(fr)
    ELSE Loop(ProcessLine(fr, lines[1]), Tail(lines))

\* Netlist().read(file) on a new Netlist, for a file holding these lines
read(lines) == Loop(NewFrame(<<>>), lines)

(***************************************************************************)
(* Netlist.write                                                           *)
(***************************************************************************)

W_DescriptionHead ==
    <<"*", " ", " ", " ", " ", " ", " ">> \o W_Description \o <<" ", ":", " ">>
W_EquationHead ==
    <<"*", " ", " ", " ", " ", " ", " ">> \o W_Equation
        \o <<" ", " ", " ", " ", ":", " ">>

\* str(device).split(":", maxsplit=1)[-1].strip()
DeviceText(dev) == Strip(SplitOnceLast(Repr(dev), ":"))

\* The lines appended for one cell
CellLines(cell) ==
    <<W_DescriptionHead \o cell.description \o W_NL,
      W_EquationHead \o cell.equation \o W_NL,
      W_subckt \o W_SP \o cell.name \o W_SP \o get_pin_order(cell) \o W_NL>>
    \o [i \in 1..Len(cell.instances) |-> DeviceText(cell.instances[i]) \o W_NL]
    \o <<W_ends \o W_NL \o W_NL>>

RECURSIVE WriteLines(_)
WriteLines(cells) ==
    IF cells = <<>> THEN <<>>
    ELSE CellLines(cells[1]) \o WriteLines(Tail(cells))

\* Netlist.write: the text of the file written
write(cells) == Concat(WriteLines(cells))

(***************************************************************************)
(* The input lines the reader is given.                                    *)
(***************************************************************************)

\* * Description : inv\n: a Description comment
L_Description ==
    <<"*", " ", "D", "e", "s", "c", "r", "i", "p", "t", "i", "o", "n", " ", ":", " ", "i", "n", "v", "\n">>

\* * Equation : y\n: an Equation comment
L_Equation ==
    <<"*", " ", "E", "q", "u", "a", "t", "i", "o", "n", " ", ":", " ", "y", "\n">>

\* .subckt INV A Q\n: a header; no transistor or diode terminal below is wired to Q
L_Subckt ==
    <<".", "s", "u", "b", "c", "k", "t", " ", "I", "N", "V", " ", "A", " ", "Q", "\n">>

\* .subckt BUF K\n: another header
L_Subckt2 ==
    <<".", "s", "u", "b", "c", "k", "t", " ", "B", "U", "F", " ", "K", "\n">>

\* M1 A B C E n L=1\n: a transistor with one extra attribute
L_Transistor ==
    <<"M", "1", " ", "A", " ", "B", " ", "C", " ", "E", " ", "n", " ", "L", "=", "1", "\n">>

\* D1 A K d S=Q\n: a diode whose extra attribute is named S
L_Diode ==
    <<"D", "1", " ", "A", " ", "K", " ", "d", " ", "S", "=", "Q", "\n">>

\* .ends\n: the terminator
L_Ends ==
    <<".", "e", "n", "d", "s", "\n">>

\* .ends: the terminator as the last line of a file without a final newline
L_EndsEOF ==
    <<".", "e", "n", "d", "s">>

\* \n: a blank line
L_Blank ==
    <<"\n">>

\*  \n: a line of whitespace only
L_Spaces ==
    <<" ", "\n">>

\* M2 A\n: a transistor line with too few tokens
L_Short ==
    <<"M", "2", " ", "A", "\n">>

InputLines ==
    {L_Description,
     L_Equation,
     L_Subckt,
     L_Subckt2,
     L_Transistor,
     L_Diode,
     L_Ends,
     L_EndsEOF,
     L_Blank,
     L_Spaces,
     L_Short}

\* A complete block, as the example netlist has it
\* * Description : nor\n and * Equation : x\n: the comments of the first block
L_Description0 ==
    <<"*", " ", "D", "e", "s", "c", "r", "i", "p", "t", "i", "o", "n", " ", ":", " ", "n", "o", "r", "\n">>
L_Equation0 ==
    <<"*", " ", "E", "q", "u", "a", "t", "i", "o", "n", " ", ":", " ", "x", "\n">>

Block == <<L_Description0, L_Equation0, L_Subckt, L_Transistor, L_Ends>>

\* The most lines the reader is given after the initial lines
MaxLines == 6

\* The most calls of set_attribute and set_pin_order after a read
MaxOps == 2

\* The most key=value tokens of a generated device line
MaxExtras == 2

(***************************************************************************)
(* Generated device lines: the positional tokens of a transistor or a      *)
(* diode (all of them, or one too few) followed by extra tokens.           *)
(***************************************************************************)

DeviceHeads ==
    {<<"M", "1", " ", "A", " ", "B", " ", "C", " ", "E", " ", "n">>,
     <<"M", "2", " ", "A", " ", "B", " ", "C", " ", "E">>,
     <<"D", "1", " ", "A", " ", "K", " ", "d">>,
     <<"D", "2", " ", "A", " ", "K">>}

ExtraTokens ==
    {<<"L", "=", "1">>, <<"L", "=", "3">>, <<"W", "=", "2">>,
     <<"S", "=", "Q">>, <<"P", "L", "U", "S", "=", "Z">>,
     <<"n", "a", "m", "e", "=", "x">>, <<"L">>, <<"L", "=", "1", "=", "2">>}

ExtraLists == UNION {[1..n -> ExtraTokens] : n \in 0..MaxExtras}

DeviceLines ==
    {Join(<<head>> \o extras, W_SP) \o W_NL :
        head \in DeviceHeads, extras \in ExtraLists}

(***************************************************************************)
(* The arguments of the calls on the model read.                           *)
(***************************************************************************)

PinOrderArgs ==
    {Str(<<"A", " ", "B">>), Str(<<"Q">>), Str(<<"Z", " ", "A">>), NotStr}
AttributeNameArgs  == {Str(W_S), Str(<<"L">>), Str(W_name), NotStr}
AttributeValueArgs == {Str(<<"Z">>), Str(<<"D", "1">>), NotStr}
LookupArgs == {Str(<<"D", "1">>), Str(<<"I", "N", "V">>), NotStr}

\* The files whose model the calls are made on
SessionFiles ==
    {Block,
     <<L_Description, L_Equation, L_Subckt, L_Diode, L_EndsEOF>>,
     <<L_Description, L_Equation, L_Subckt, L_Transistor, L_Diode, L_Ends,
       L_Equation, L_Description, L_Subckt2, L_Diode, L_Ends>>,
     <<L_Description, L_Equation, L_Subckt, L_Transistor, L_Ends,
       L_Description, L_Equation, L_Subckt, L_Diode, L_EndsEOF>>}

(***************************************************************************)
(* The state.                                                              *)
(***************************************************************************)

VARIABLES
    lines,    \* the lines of the file the loop of read() has taken so far
    frame,    \* the locals of read() and self.cell_list
    pc,       \* "read": in the loop; "ready": read() returned; "failed": it raised
    call,     \* the last call on the model read, and how it ended
    ops,      \* the number of such calls
    file,     \* the text Netlist.write wrote
    second    \* the frame of a second Netlist that read that text

vars == <<lines, frame, pc, call, ops, file, second>>

NoCall    == [op |-> "none", cell |-> 0, inst |-> 0, name |-> NotStr,
              value |-> NotStr, err |-> NoExc, before |-> <<>>,
              index |-> 0, names |-> <<>>]
NotWritten == Unbound
NotRead    == [NewFrame(<<>>) EXCEPT !.exc = Exc("not read", <<>>, <<>>, {})]

\* The body of the loop run over some lines, without the else clause
RECURSIVE Body(_, _)
Body(fr, ls) ==
    IF ls = <<>> \/ fr.exc # NoExc THEN fr
    ELSE Body(ProcessLine(fr, ls[1]), Tail(ls))

NoSession ==
    /\ call = NoCall
    /\ ops = 0
    /\ file = NotWritten
    /\ second = NotRead

\* read() is in its loop on a new Netlist; it has taken no line yet, or the
\* lines of one complete block.
Init ==
    /\ lines \in {<<>>, Block}
    /\ frame = Body(NewFrame(<<>>), lines)
    /\ pc = "read"
    /\ NoSession

\* The lines taken beyond the initial block
Taken(ls) ==
    IF Len(ls) >= Len(Block) /\ SubSeq(ls, 1, Len(Block)) = Block
    THEN Len(ls) - Len(Block) ELSE Len(ls)

\* readlines() ends every line but the last with a newline
MoreLines(ls) ==
    IF ls = <<>> THEN TRUE ELSE ls[Len(ls)][Len(ls[Len(ls)])] = "\n"

\* One pass of the loop, on the given line
Take(line) ==
    /\ lines' = Append(lines, line)
    /\ frame' = ProcessLine(frame, line)
    /\ pc' = IF frame'.exc # NoExc THEN "failed" ELSE "read"
    /\ UNCHANGED <<call, ops, file, second>>

\* The loop takes the next line of the file.
ReadLine ==
    /\ pc = "read"
    /\ Taken(lines) < MaxLines
    /\ MoreLines(lines)
    /\ \E line \in InputLines : Take(line)

\* The lines are exhausted: the else clause of the loop, and read() returns.
EndOfInput ==
    /\ pc = "read"
    /\ frame' = EndOfLoop(frame)
    /\ pc' = IF frame'.exc # NoExc THEN "failed" ELSE "ready"
    /\ UNCHANGED <<lines, call, ops, file, second>>

\* cell.set_pin_order(text) on a cell of the netlist
SetPinOrder ==
    /\ pc = "ready"
    /\ ops < MaxOps
    /\ \E c \in 1..Len(frame.cell_list), arg \in PinOrderArgs :
          LET res == set_pin_order(frame.cell_list[c], arg) IN
          /\ frame' = [frame EXCEPT !.cell_list[c] = res.cell]
          /\ call' = [NoCall EXCEPT !.op = "set_pin_order", !.cell = c,
                                    !.value = arg, !.err = res.err,
                                    !.before = frame.cell_list]
    /\ ops' = ops + 1
    /\ UNCHANGED <<lines, pc, file, second>>

\* device.set_attribute(name, value) on a device of a cell of the netlist
SetAttribute ==
    /\ pc = "ready"
    /\ ops < MaxOps
    /\ \E c \in 1..Len(frame.cell_list) :
       \E d \in 1..Len(frame.cell_list[c].instances) :
       \E name \in AttributeNameArgs, value \in AttributeValueArgs :
          LET res == set_attribute(frame.cell_list[c].instances[d], name, value) IN
          /\ frame' = SetDevice(frame, c, d, res.dev)
          /\ call' = [NoCall EXCEPT !.op = "set_attribute", !.cell = c, !.inst = d,
                                    !.name = name, !.value = value,
                                    !.err = Exc(res.err, <<>>, <<>>, {}),
                                    !.before = frame.cell_list]
    /\ ops' = ops + 1
    /\ UNCHANGED <<lines, pc, file, second>>

\* cell.get_instance(name) on a cell of the netlist
GetInstance ==
    /\ pc = "ready"
    /\ ops < MaxOps
    /\ \E c \in 1..Len(frame.cell_list), arg \in LookupArgs :
          LET res == get_instance(frame.cell_list[c], arg) IN
          call' = [NoCall EXCEPT !.op = "get_instance", !.cell = c, !.name = arg,
                                 !.err = res.err, !.index = res.index,
                                 !.names = res.names,
                                 !.before = frame.cell_list]
    /\ ops' = ops + 1
    /\ UNCHANGED <<lines, frame, pc, file, second>>

\* netlist.get_cell(name)
GetCell ==
    /\ pc = "ready"
    /\ ops < MaxOps
    /\ \E arg \in LookupArgs :
          LET res == get_cell(frame.cell_list, arg) IN
          call' = [NoCall EXCEPT !.op = "get_cell", !.name = arg,
                                 !.err = res.err, !.index = res.index,
                                 !.names = res.names,
                                 !.before = frame.cell_list]
    /\ ops' = ops + 1
    /\ UNCHANGED <<lines, frame, pc, file, second>>

\* netlist.write(path)
Write ==
    /\ pc = "ready"
    /\ file # write(frame.cell_list)
    /\ file' = write(frame.cell_list)
    /\ second' = NotRead
    /\ UNCHANGED <<lines, frame, pc, call, ops>>

\* Netlist().read(path) of the file written
ReadBack ==
    /\ file # NotWritten
    /\ second = NotRead
    /\ second' = read(ReadLines(file))
    /\ UNCHANGED <<lines, frame, pc, call, ops, file>>

\* Reading a file, writing the model and reading it back.
Next ==
    \/ ReadLine
    \/ EndOfInput
    \/ Write
    \/ ReadBack

Spec == Init /\ [][Next]_vars

(***************************************************************************)
(* The calls on a model read: read() has returned for one of SessionFiles. *)
(***************************************************************************)

InitSession ==
    /\ lines \in SessionFiles
    /\ frame = read(lines)
    /\ pc = "ready"
    /\ NoSession

NextSession ==
    \/ SetPinOrder
    \/ SetAttribute
    \/ GetInstance
    \/ GetCell
    \/ Write
    \/ ReadBack

SpecSession == InitSession /\ [][NextSession]_vars

(***************************************************************************)
(* Reading a block with one generated device line: read() is in its loop   *)
(* and has taken the comments and the header of the block.                 *)
(***************************************************************************)

InitDevice ==
    /\ lines = <<L_Description, L_Equation, L_Subckt>>
    /\ frame = Body(NewFrame(<<>>), lines)
    /\ pc = "read"
    /\ NoSession

\* The loop takes the device line of the block whose header it has taken.
ReadDeviceLine ==
    /\ pc = "read"
    /\ frame.valid_spice_netlist["subckt"]
    /\ ~frame.valid_spice_netlist["instances"]
    /\ \E line \in DeviceLines : Take(line)

\* The loop takes the terminator of the block.
ReadEnds ==
    /\ pc = "read"
    /\ frame.valid_spice_netlist["instances"]
    /\ frame.finished = "False"
    /\ Take(L_Ends)

NextDevice ==
    \/ ReadDeviceLine
    \/ ReadEnds
    \/ EndOfInput
    \/ Write
    \/ ReadBack

SpecDevice == InitDevice /\ [][NextDevice]_vars

(***************************************************************************)
(* Vocabulary of the properties.                                           *)
(***************************************************************************)

\* What a read leaves behind: whether it returned, and the cells.
Outcome(fr) == [accepted |-> fr.exc = NoExc, cell_list |-> fr.cell_list]

\* ls with the line l put after its first i lines
InsertAt(ls, i, l) == SubSeq(ls, 1, i) \o <<l>> \o SubSeq(ls, i + 1, Len(ls))

IsBlank(l)  == Strip(l) = <<>>
IsHeader(l) == StartsWith(l, W_subckt)
IsEnds(l)   == StartsWith(l, W_ends)

Structural(ls) == {i \in 1..Len(ls) : ~IsBlank(ls[i])}

\* The last line of ls that is not blank, when there is one
LastStructural(ls) ==
    ls[CHOOSE i \in Structural(ls) : \A j \in Structural(ls) : j <= i]

\* Two header lines with no terminator line between them
TwoHeadersNoEnds(ls) ==
    \E i, j \in 1..Len(ls) :
        /\ i < j
        /\ IsHeader(ls[i])
        /\ IsHeader(ls[j])
        /\ \A k \in (i + 1)..(j - 1) : ~IsEnds(ls[k])

AllFlags(fr) == \A f \in Range(FlagNames) : fr.valid_spice_netlist[f]
NoFlag(fr)   == \A f \in Range(FlagNames) : ~fr.valid_spice_netlist[f]

\* The step of the loop that takes a line / the step that ends the loop
TakesLine == pc = "read" /\ Len(lines') = Len(lines) + 1
EndsLoop  == pc = "read" /\ pc' # "read" /\ lines' = lines

\* The terminal attributes of a variant: those its constructor sets from
\* the positional arguments between the name and the model
TerminalNames(cls) ==
    IF cls = "Transistor" THEN {W_S, W_D, W_G, W_B}
    ELSE IF cls = "Diode" THEN {W_PLUS, W_MINUS}
    ELSE {}

\* The values of the terminal attributes of the devices
TerminalValues(instances) ==
    UNION {{GetAttr(instances[i].dict, key) : key \in TerminalNames(instances[i].cls)} :
              i \in 1..Len(instances)}

\* Parsing a device line as the loop does, by its first character
ParseDevice(line) ==
    IF StartsWith(line, W_M) THEN read_transistor(line)
    ELSE IF StartsWith(line, W_D) THEN read_diode(line)
    ELSE [err |-> "CheckLine", dev |-> NoDevice]

\* Every device the reader holds: in the accumulator or in a cell
DevicesRead ==
    Range(frame.instances)
        \cup UNION {Range(frame.cell_list[c].instances) :
                       c \in 1..Len(frame.cell_list)}

(***************************************************************************)
(* Properties.                                                             *)
(***************************************************************************)

\* C1: the file written from the model of an accepted document is accepted
\* by read() on a new Netlist, and the cells read from it equal the cells of
\* the model (names, descriptions, equations, pin orders, devices).
C1_RoundTrip ==
    second # NotRead =>
        /\ second.exc = NoExc
        /\ second.cell_list = frame.cell_list

\* C2: a blank line (a lone newline, or whitespace only) put at any place
\* of the lines read changes neither whether read() accepts them nor the
\* cells it leaves.
C2_BlankLinesAreNoOps ==
    pc \in {"ready", "failed"} =>
        \A i \in 0..Len(lines) : \A blank \in {L_Blank, L_Spaces} :
            MoreLines(SubSeq(lines, 1, i)) =>
                Outcome(read(InsertAt(lines, i, blank))) = Outcome(frame)

\* C3: a .ends line is passed exactly when all four flags are true; when
\* one is false the error names exactly the false flags and no cell is
\* appended; when all are true exactly one cell is appended, the
\* accumulator is emptied and all four flags become false.
C3_Ends ==
    [][(TakesLine /\ IsEnds(lines'[Len(lines')])) =>
          /\ (frame'.exc = NoExc) <=> AllFlags(frame)
          /\ ~AllFlags(frame) =>
                /\ frame'.exc.kind = "CheckFlags"
                /\ Range(frame'.exc.flags) =
                       {f \in Range(FlagNames) : ~frame.valid_spice_netlist[f]}
                /\ frame'.cell_list = frame.cell_list
          /\ AllFlags(frame) =>
                /\ Len(frame'.cell_list) = Len(frame.cell_list) + 1
                /\ SubSeq(frame'.cell_list, 1, Len(frame.cell_list)) = frame.cell_list
                /\ frame'.instances = <<>>
                /\ NoFlag(frame')]_vars

\* C3 witness: a second block has been closed by its .ends line.
C3_Witness ==
    /\ pc = "read"
    /\ Len(lines) > Len(Block)
    /\ IsEnds(lines[Len(lines)])
    /\ Len(frame.cell_list) = 2

\* C4: no document with two .subckt lines and no .ends line between them
\* is accepted.
C4_TwoHeadersRejected == pc = "ready" => ~TwoHeadersNoEnds(lines)

\* C5: when the lines are exhausted and the last line that is not blank is
\* not .ends, read() fails with the no-terminator error; and it returns
\* only when that line is .ends, with no flag set and no device pending.
C5_EndOfInput ==
    [][EndsLoop =>
          /\ (Structural(lines) # {} /\ ~IsEnds(LastStructural(lines)))
                => frame'.exc.kind = "NoEndsAtEOF"
          /\ pc' = "ready" =>
                /\ Structural(lines) # {}
                /\ IsEnds(LastStructural(lines))
                /\ NoFlag(frame')
                /\ frame'.instances = <<>>]_vars

\* C5 witness: the input ended after a device line of an open block and
\* read() raised the no-terminator error.
C5_Witness ==
    /\ pc = "failed"
    /\ frame.exc.kind = "NoEndsAtEOF"
    /\ lines # <<>>
    /\ lines[Len(lines)] = L_Diode
    /\ frame.valid_spice_netlist["instances"]

\* C6: read() of no lines returns, with no error and no cell.
C6_EmptyInput ==
    (lines = <<>> /\ pc # "read") =>
        /\ pc = "ready"
        /\ frame.exc = NoExc
        /\ frame.cell_list = <<>>

\* C7: set_pin_order(text) succeeds exactly when every name of text is the
\* value of a terminal attribute (PLUS, MINUS of a Diode; S, D, G, B of a
\* Transistor) of a device of the cell; then pin_order is the names in the
\* order given; otherwise the error names the names outside that set and
\* pin_order is unchanged.
C7_SetPinOrder ==
    (call.op = "set_pin_order" /\ call.value.type = "str") =>
        LET old   == call.before[call.cell]
            new   == frame.cell_list[call.cell]
            pins  == SplitWs(call.value.text)
            valid == TerminalValues(old.instances)
        IN  /\ (call.err = NoExc) <=> (Range(pins) \subseteq valid)
            /\ call.err = NoExc => new.pin_order = pins
            /\ call.err # NoExc =>
                  /\ call.err.pins = Range(pins) \ valid
                  /\ new.pin_order = old.pin_order

\* C8: whenever a pin_order is assigned (a cell is appended by the reader,
\* or the pin_order of a cell changes), every name of it is the value of a
\* terminal attribute of a device of that cell.
C8_PinsWiredAtAssignment ==
    [][\A c \in 1..Len(frame'.cell_list) :
          (\/ c > Len(frame.cell_list)
           \/ frame'.cell_list[c].pin_order # frame.cell_list[c].pin_order)
          => Range(frame'.cell_list[c].pin_order)
                 \subseteq TerminalValues(frame'.cell_list[c].instances)]_vars

\* C9: set_attribute(name, value) with text arguments succeeds exactly when
\* name is a key of the device; then that key has the value, the keys, their
\* order and the other values are as before, and the formatted device shows
\* the value at the place of the key; when it fails (an argument that is no
\* text, or an unknown key) the device and the whole model are as before.
C9_SetAttribute ==
    call.op = "set_attribute" =>
        LET old   == call.before[call.cell].instances[call.inst]
            new   == frame.cell_list[call.cell].instances[call.inst]
            shown == SplitWs(Repr(new))
        IN  /\ (call.name.type = "str" /\ call.value.type = "str") =>
                  ((call.err = NoExc) <=> (call.name.text \in Keys(old.dict)))
            /\ (call.name.type # "str" \/ call.value.type # "str") =>
                  call.err # NoExc
            /\ call.err = NoExc =>
                  /\ Len(new.dict) = Len(old.dict)
                  /\ \A i \in 1..Len(old.dict) :
                        /\ new.dict[i].k = old.dict[i].k
                        /\ new.dict[i].v =
                               IF old.dict[i].k = call.name.text
                               THEN call.value.text ELSE old.dict[i].v
                  /\ Len(shown) = Len(new.dict) + 1
                  /\ shown[KeyIndex(new.dict, call.name.text) + 1] \in
                         {call.value.text,
                          call.name.text \o <<"=">> \o call.value.text}
            /\ call.err # NoExc => frame.cell_list = call.before

\* C9 witness: a set_attribute call succeeded and changed a device.
C9_Witness ==
    /\ call.op = "set_attribute"
    /\ call.err = NoExc
    /\ frame.cell_list # call.before

\* C10: the text written for a device the reader parsed is parsed again
\* without error, to a device of the same variant with the same keys,
\* values and order.
C10_DeviceRoundTrip ==
    \A dev \in DevicesRead :
        /\ ParseDevice(DeviceText(dev)).err = "none"
        /\ ParseDevice(DeviceText(dev)).dev = dev

\* The positional attributes of a variant, in the order of its constructor
PositionalNames(cls) ==
    IF cls = "Transistor" THEN <<W_name, W_S, W_D, W_G, W_B, W_Model>>
    ELSE <<W_name, W_PLUS, W_MINUS, W_Model>>

\* The token has exactly one "=" / the text before it / the text after it
OneEquals(token) == Cardinality({j \in 1..Len(token) : token[j] = "="}) = 1
KeyOf(token)     == SubSeq(token, 1, RunLen(token, {"="}))
ValueOf(token)   == SubSeq(token, RunLen(token, {"="}) + 2, Len(token))

\* In SpecDevice: the loop has just taken the device line, lines[4]
DeviceLineTaken ==
    /\ Len(lines) = 4
    /\ frame.finished = "False"
    /\ frame.exc.kind # "NoEndsAtEOF"

\* C11: a device line is parsed without error exactly when it has the
\* positional tokens of its variant (6 or 4) and every further token has
\* exactly one "="; the device then has the positional attributes with the
\* first tokens as values, followed by one attribute per further token, in
\* token order.
C11_DeviceLineParsing ==
    DeviceLineTaken =>
        LET params == SplitWs(lines[4])
            names  == PositionalNames(IF StartsWith(lines[4], W_M)
                                      THEN "Transistor" ELSE "Diode")
            n      == Len(names)
            rest   == SubSeq(params, n + 1, Len(params))
            wellFormed ==
                /\ Len(params) >= n
                /\ \A i \in 1..Len(rest) : OneEquals(rest[i])
        IN  /\ (frame.exc = NoExc) <=> wellFormed
            /\ frame.exc = NoExc =>
                  LET dict == frame.instances[1].dict IN
                  /\ Len(dict) = Len(params)
                  /\ \A i \in 1..n :
                        dict[i] = [k |-> names[i], v |-> params[i]]
                  /\ \A i \in 1..Len(rest) :
                        dict[n + i] = [k |-> KeyOf(rest[i]), v |-> ValueOf(rest[i])]

\* The names the last lookup searched: of the devices of the cell, or of
\* the cells
NamesSearched ==
    IF call.op = "get_instance"
    THEN InstanceNames(frame.cell_list[call.cell])
    ELSE CellNames(frame.cell_list)

\* C12: get_instance and get_cell, given a text, return the first entry in
\* stored order whose name is that text, also when several entries have it;
\* when no entry has it they raise an error listing all the names in stored
\* order; they never end any other way.
C12_Lookup ==
    (call.op \in {"get_instance", "get_cell"} /\ call.name.type = "str") =>
        LET names == NamesSearched
            hits  == {i \in 1..Len(names) : names[i] = call.name.text}
        IN  /\ hits # {} =>
                  /\ call.err = NoExc
                  /\ call.index \in hits
                  /\ \A i \in hits : call.index <= i
            /\ hits = {} =>
                  /\ call.err.kind = "NameError"
                  /\ call.index = 0
                  /\ call.names = names

\* C12 witness: two devices of a cell have the name asked for (one was
\* renamed by set_attribute) and get_instance returned the first.
C12_Witness ==
    /\ call.op = "get_instance"
    /\ call.name.type = "str"
    /\ Cardinality({i \in 1..Len(NamesSearched) :
                       NamesSearched[i] = call.name.text}) = 2
    /\ call.index = 1

\* The kinds of line the loop tells apart, in the order of its tests
IsComment(l) == StartsWith(l, W_star)
IsDescriptionComment(l) == IsComment(l) /\ Find(l, W_Description) # -1
IsEquationComment(l) ==
    IsComment(l) /\ Find(l, W_Description) = -1 /\ Find(l, W_Equation) # -1
IsDeviceLine(l) == StartsWith(l, W_M) \/ StartsWith(l, W_D)

\* The positions of the .ends lines of ls, and the k-th of them
EndsLines(ls) == {i \in 1..Len(ls) : IsEnds(ls[i])}
KthEnds(ls, k) ==
    CHOOSE i \in EndsLines(ls) : Cardinality({j \in EndsLines(ls) : j <= i}) = k

\* The lines of the k-th block: after the (k-1)-th .ends line, or from the
\* start, up to the k-th .ends line
BlockLines(ls, k) ==
    SubSeq(ls, IF k = 1 THEN 1 ELSE KthEnds(ls, k - 1) + 1, KthEnds(ls, k) - 1)

\* The lines of b of one kind, in order, and the last of them
LinesOf(b, Kind(_)) ==
    LET at == {i \in 1..Len(b) : Kind(b[i])}
    IN  [n \in 1..Cardinality(at) |->
            b[CHOOSE i \in at : Cardinality({j \in at : j <= i}) = n]]
LastOf(b, Kind(_)) == LinesOf(b, Kind)[Len(LinesOf(b, Kind))]

\* The block has a line of each of the four kinds
CompleteBlock(b) ==
    /\ LinesOf(b, IsDescriptionComment) # <<>>
    /\ LinesOf(b, IsEquationComment) # <<>>
    /\ LinesOf(b, IsHeader) # <<>>
    /\ LinesOf(b, IsDeviceLine) # <<>>

\* The cell a complete block describes
CellOfBlock(b) ==
    LET header  == SplitWs(LastOf(b, IsHeader))
        devices == LinesOf(b, IsDeviceLine)
    IN  Cell(header[2],
             Strip(SplitOnceLast(LastOf(b, IsDescriptionComment), ":")),
             Strip(SplitOnceLast(LastOf(b, IsEquationComment), ":")),
             SubSeq(header, 3, Len(header)),
             [i \in 1..Len(devices) |-> ParseDevice(devices[i]).dev])

\* C13: after a successful read the cell list has one cell per .ends line, in
\* file order; the k-th cell's instances are the devices parsed from the M/D
\* lines of the k-th block, in line order and never empty; its name and pin
\* order are those of the last .subckt line of that block, its description and
\* equation those of the last Description / Equation comment of that block.
C13_CellsOfBlocks ==
    pc = "ready" =>
        /\ Len(frame.cell_list) = Cardinality(EndsLines(lines))
        /\ \A k \in 1..Len(frame.cell_list) :
              /\ CompleteBlock(BlockLines(lines, k))
              /\ frame.cell_list[k] = CellOfBlock(BlockLines(lines, k))
              /\ frame.cell_list[k].instances # <<>>

\* C13 witness: a read returned two cells; the second block has two comments
\* of one kind or two headers, and two device lines.
C13_Witness ==
    /\ pc = "ready"
    /\ Len(frame.cell_list) = 2
    /\ Len(frame.cell_list[2].instances) = 2
    /\ frame.cell_list[2].description # frame.cell_list[1].description

\* The lines of the open block: those after the last .ends line of ls
OpenBlock(ls) ==
    IF EndsLines(ls) = {} THEN ls
    ELSE SubSeq(ls, KthEnds(ls, Cardinality(EndsLines(ls))) + 1, Len(ls))

\* C14: a line starting with "*" taken while the subckt flag or the instances
\* flag is true makes read() fail with the unterminated-block error, and the
\* error names the cell of the open block: the name on its .subckt line, and
\* when the open block has device lines but no .subckt line, not the name of a
\* cell that is already closed.
C14_CommentInOpenBlock ==
    [][(/\ TakesLine
        /\ IsComment(lines'[Len(lines')])
        /\ \/ frame.valid_spice_netlist["subckt"]
           \/ frame.valid_spice_netlist["instances"])
       => /\ frame'.exc.kind = "NoEndsInCell"
          /\ LET headers == LinesOf(OpenBlock(lines), IsHeader) IN
             IF headers # <<>>
             THEN frame'.exc.text = SplitWs(headers[Len(headers)])[2]
             ELSE frame'.exc.text \notin Range(CellNames(frame.cell_list))]_vars

\* Every name of the pin_order of the cell is the value of a terminal
\* attribute of a device of the cell
PinsWired(cells, c) ==
    Range(cells[c].pin_order) \subseteq TerminalValues(cells[c].instances)

\* C15: when a set_pin_order on a cell has succeeded and the names of its
\* pin_order are values of terminal attributes of its devices, they still are
\* after a following set_attribute on a device or set_pin_order on a cell,
\* successful or failing.
C15_PinsStayWired ==
    [][(/\ call.op = "set_pin_order"
        /\ call.err = NoExc
        /\ PinsWired(frame.cell_list, call.cell)
        /\ call'.op \in {"set_attribute", "set_pin_order"})
          => PinsWired(frame'.cell_list, call.cell)]_vars

\* The rendering of one attribute of a device: bare when its key is a
\* positional attribute of the variant of the device, key=value otherwise
Rendered(dev, i) ==
    IF dev.dict[i].k \in Range(PositionalNames(dev.cls))
    THEN dev.dict[i].v
    ELSE dev.dict[i].k \o <<"=">> \o dev.dict[i].v

\* C16: a device is formatted as the name of its variant, ": ", and its
\* attributes in stored order separated by spaces: the positional attributes
\* of its variant as bare values, every other attribute as key=value, also
\* when its key is a positional attribute of the other variant.
C16_Format ==
    \A dev \in DevicesRead :
        Repr(dev) = ClassName(dev.cls) \o <<":", " ">>
                        \o Join([i \in 1..Len(dev.dict) |-> Rendered(dev, i)], W_SP)

\* read() failed in the body of the loop, on the last line taken / in the
\* else clause, with every line taken
FailedOnLine == pc = "failed" /\ frame.finished # "unbound"
                              /\ frame.exc.kind # "NoEndsAtEOF"
FailedAtEnd  == pc = "failed" /\ ~FailedOnLine

\* The cells of the blocks of ls closed by a .ends line
CellsOfBlocks(ls) ==
    [k \in 1..Cardinality(EndsLines(ls)) |-> CellOfBlock(BlockLines(ls, k))]

\* C17: read() stops at the first failure. While the loop runs the cell
\* list is the cells of the blocks closed so far; the step that fails, on a
\* line or in the end-of-input check, leaves the cell list as it was, so it
\* holds the cells of the blocks closed before the failure, none rolled back
\* and none added; and the loop given more lines after the failure processes
\* none: cells, locals and exception stay.
C17_StopsAtFirstFailure ==
    /\ [](pc = "read" => frame.cell_list = CellsOfBlocks(lines))
    /\ [][(pc = "read" /\ pc' = "failed") =>
             /\ frame'.cell_list = frame.cell_list
             /\ Loop(frame', Block) = frame']_vars

\* C17 witness: read() failed on a line after two blocks were closed, and
\* the two cells are in the cell list.
C17_Witness ==
    /\ FailedOnLine
    /\ Len(frame.cell_list) = 2

\* C17 witness of the other case: the end-of-input check failed after a
\* block was closed.
C17_WitnessAtEnd ==
    /\ FailedAtEnd
    /\ Len(frame.cell_list) >= 1

\* The devices parsed from the M/D lines of a block
DevicesOfBlock(b) ==
    [i \in 1..Len(LinesOf(b, IsDeviceLine)) |->
        ParseDevice(LinesOf(b, IsDeviceLine)[i]).dev]

\* The cells in the cell list once the loop has taken the first k lines
CellsAfter(k) == Body(NewFrame(<<>>), SubSeq(lines, 1, k)).cell_list

\* C18: the instances of a cell are its own. Once read() has returned, every
\* cell has the devices of its block, and is as it was after every line taken
\* since it was appended: clearing the accumulator and appending the devices
\* of the next block changed no cell of the cell list. A set_attribute on a
\* device of one cell changes no other cell.
C18_CellsOwnTheirInstances ==
    /\ [](ops = 0 =>
            /\ \A c \in 1..Len(frame.cell_list) :
                  frame.cell_list[c].instances
                      = DevicesOfBlock(BlockLines(lines, c))
            /\ \A k \in 0..Len(lines) :
                  /\ Len(CellsAfter(k)) <= Len(frame.cell_list)
                  /\ \A c \in 1..Len(CellsAfter(k)) :
                        CellsAfter(k)[c] = frame.cell_list[c])
    /\ [][call'.op = "set_attribute" =>
             \A c \in 1..Len(frame.cell_list) :
                 c # call'.cell => frame'.cell_list[c] = frame.cell_list[c]]_vars

\* C18 witness: a set_attribute changed a device of one cell of a netlist of
\* two cells, read from a file of two blocks.
C18_Witness ==
    /\ call.op = "set_attribute"
    /\ call.err = NoExc
    /\ Len(frame.cell_list) = 2
    /\ frame.cell_list[call.cell] # call.before[call.cell]
    /\ Cardinality(EndsLines(lines)) = 2

\* C19: while the loop of read() runs, and when it has returned, the
\* instances flag is true exactly when the accumulator holds a device; and
\* when the last line taken is a .ends line that was processed without
\* error, the four flags are false and the accumulator is empty.
C19_FlagsAndAccumulator ==
    pc \in {"read", "ready"} =>
        /\ frame.valid_spice_netlist["instances"] <=> frame.instances # <<>>
        /\ (Len(lines) > 0 /\ IsEnds(lines[Len(lines)])) =>
              /\ NoFlag(frame)
              /\ frame.instances = <<>>

\* C19 witness: the loop has closed a second block, whose lines were taken
\* one by one after the first block; and a device is pending in a third.
C19_Witness ==
    /\ pc = "read"
    /\ Len(frame.cell_list) = 2
    /\ Len(lines) > 0
    /\ IsDeviceLine(lines[Len(lines)])
    /\ frame.instances # <<>>

====
